---------------------------- MODULE Spec2Model ----------------------------
(***************************************************************************)
(* Two integer-keyed hash tables:                                          *)
(*   HashTableLinearProbing     (src/HashTableLinearProbing.cpp)           *)
(*   HashTableSeparateChaining  (src/unnamed/part_000)                     *)
(* Each object is modelled by its three fields (hash_groups, elements,     *)
(* table).  A vector of n slots is a sequence of length n; slot i of the   *)
(* C++ vector is element i+1 of the sequence.                              *)
(***************************************************************************)
EXTENDS Integers, Sequences, FiniteSets

(***************************************************************************)
(* Bounds of the model.                                                    *)
(***************************************************************************)
MaxKey == 4
MaxVal == 2
MaxInit == 3
MaxGroups == 4
MaxDeficit == 1
MaxElements == 4
MaxChainKey == 1
MaxZeroKey == 1
MaxGrowElements == 6
MaxIndexGroups == 5

(***************************************************************************)
(* Program constants.                                                      *)
(***************************************************************************)
NotFound == -1
DefaultGroups == 10

Keys1 == 1..MaxKey
Keys0 == 0..MaxKey
ChainKeys == 0..MaxChainKey
ZeroKeys == 0..MaxZeroKey
Vals == 1..MaxVal

VARIABLES
    lp_hash_groups,   \* HashTableLinearProbing::hash_groups
    lp_elements,      \* HashTableLinearProbing::elements
    lp_table,         \* HashTableLinearProbing::table
    sc_hash_groups,   \* HashTableSeparateChaining::hash_groups
    sc_elements,      \* HashTableSeparateChaining::elements
    sc_table,         \* HashTableSeparateChaining::table
    lp_abs,           \* history: key -> last value inserted and not removed
    sc_queue,         \* history: key -> values inserted and not removed, oldest first
    last,             \* the call that returned last, with its result
    hung              \* the call that never returns, "none" while there is none

vars == <<lp_hash_groups, lp_elements, lp_table, sc_hash_groups, sc_elements,
          sc_table, lp_abs, sc_queue, last, hung>>
lpVars == <<lp_hash_groups, lp_elements, lp_table, lp_abs>>
scVars == <<sc_hash_groups, sc_elements, sc_table, sc_queue>>

(***************************************************************************)
(* C++ operator % on int: the remainder of the division truncated toward   *)
(* zero, so it has the sign of the dividend.                               *)
(***************************************************************************)
Rem(a, b) == IF a >= 0 THEN a % b ELSE -((-a) % b)

(***************************************************************************)
(* std::pair<int,int>, and the value-initialised pair {0, 0} a fresh       *)
(* vector holds.                                                           *)
(***************************************************************************)
Pair(k, v) == [first |-> k, second |-> v]
EmptyPair == Pair(0, 0)
NewTable(n) == [i \in 1..n |-> EmptyPair]

\* table[index]
At(t, index) == t[index + 1]
\* table[index] = p
Put(t, index, p) == [t EXCEPT ![index + 1] = p]

\* A remove that resets the value and leaves the key in the slot.
ErasedValueOnly(t, index) == Put(t, index, Pair(At(t, index).first, 0))

\* table[index] = {0, 0}
Erased(t, index) == Put(t, index, EmptyPair)

\* The result of a scan that never leaves its loop.
NoSlot == -1
\* The result of a resize whose scan never leaves its loop.
NoTable == <<>>

(***************************************************************************)
(* HashTableLinearProbing                                                  *)
(***************************************************************************)

\* insert's scan: while (table[index].first != 0 && table[index].first != key).
\* The table does not change during the scan, so a scan that has looked at
\* all n slots without leaving the loop never leaves it.
RECURSIVE InsertProbe(_, _, _, _, _)
InsertProbe(t, n, key, index, steps) ==
    IF steps = n THEN NoSlot
    ELSE IF At(t, index).first # 0 /\ At(t, index).first # key
         THEN InsertProbe(t, n, key, (index + 1) % n, steps + 1)
         ELSE index

\* A remove whose scan also stops at an empty slot, as insert's does.
RECURSIVE RemoveProbeToEmpty(_, _, _, _, _)
RemoveProbeToEmpty(t, n, key, index, steps) ==
    IF steps = n THEN NoSlot
    ELSE IF At(t, index).first # 0 /\ At(t, index).first # key
         THEN RemoveProbeToEmpty(t, n, key, (index + 1) % n, steps + 1)
         ELSE index

\* remove's scan: while (table[index].first != key).
RECURSIVE RemoveProbe(_, _, _, _, _)
RemoveProbe(t, n, key, index, steps) ==
    IF steps = n THEN NoSlot
    ELSE IF At(t, index).first # key
         THEN RemoveProbe(t, n, key, (index + 1) % n, steps + 1)
         ELSE index

\* resize's scan of the new table: while (new_table[index].first != 0).
RECURSIVE FreeProbe(_, _, _, _)
FreeProbe(t, n, index, steps) ==
    IF steps = n THEN NoSlot
    ELSE IF At(t, index).first # 0
         THEN FreeProbe(t, n, (index + 1) % n, steps + 1)
         ELSE index

\* A resize loop that takes each key modulo the old hash_groups.
RECURSIVE ResizeFillOldHome(_, _, _, _)
ResizeFillOldHome(old, new, n2, i) ==
    IF i = Len(old) THEN new
    ELSE LET p == At(old, i)
             index == FreeProbe(new, n2, Rem(p.first, n2 \div 2), 0)
         IN  IF index = NoSlot THEN NoTable
             ELSE ResizeFillOldHome(old, Put(new, index, p), n2, i + 1)

\* resize's loop "for (const auto &p : table)", from slot i on, into a new
\* table of n2 slots.  Every slot is visited, the empty ones too.
RECURSIVE ResizeFill(_, _, _, _)
ResizeFill(old, new, n2, i) ==
    IF i = Len(old) THEN new
    ELSE LET p == At(old, i)
             index == FreeProbe(new, n2, Rem(p.first, n2), 0)
         IN  IF index = NoSlot THEN NoTable
             ELSE ResizeFill(old, Put(new, index, p), n2, i + 1)

\* A resize that copies every slot to the same index of the new table.
LPResizeRawCopy(t, n) == t \o NewTable(n)

\* resize(): the new table, of twice the slots.
LPResize(t, n) == ResizeFill(t, NewTable(2 * n), 2 * n, 0)

\* A check with > for >=.
LPMustGrowStrict(e, n) == 4 * e > 3 * n

\* A check that grows the table once elements exceeds hash_groups.
LPMustGrowExceeds(e, n) == e > n

\* insert's check "elements >= hash_groups * 0.75" (a comparison of doubles,
\* exact for these magnitudes).
LPMustGrow(e, n) == 4 * e >= 3 * n

\* hash_groups and table as insert's scan finds them.
LPGroupsAtScan(e, n) == IF LPMustGrow(e, n) THEN 2 * n ELSE n
LPTableAtScan(t, e, n) == IF LPMustGrow(e, n) THEN LPResize(t, n) ELSE t

\* The slot insert(key, .) writes, NoSlot if the call never returns.
LPInsertSlot(t, e, n, key) ==
    LET n1 == LPGroupsAtScan(e, n)
        t1 == LPTableAtScan(t, e, n)
    IN  IF t1 = NoTable THEN NoSlot
        ELSE InsertProbe(t1, n1, key, Rem(key, n1), 0)

\* What get's loop ends with: the value returned and the number of slots
\* looked at.
Got(ret, seen) == [ret |-> ret, seen |-> seen]

\* A get whose loop has no "if (index == start_index) break".
RECURSIVE GetScanNoTurnCheck(_, _, _, _, _, _)
GetScanNoTurnCheck(t, n, key, index, start, seen) ==
    IF seen > n THEN Got(NoSlot, seen)
    ELSE IF At(t, index).first = 0 THEN Got(NotFound, seen + 1)
    ELSE IF At(t, index).first = key THEN Got(At(t, index).second, seen + 1)
    ELSE GetScanNoTurnCheck(t, n, key, (index + 1) % n, start, seen + 1)

\* get's loop, from index on; start is start_index, seen the number of slots
\* looked at before this one.  A loop that has looked at more than n slots
\* is cut off there.
RECURSIVE GetScan(_, _, _, _, _, _)
GetScan(t, n, key, index, start, seen) ==
    IF seen > n THEN Got(NoSlot, seen)
    ELSE IF At(t, index).first = 0 THEN Got(NotFound, seen + 1)
    ELSE IF At(t, index).first = key THEN Got(At(t, index).second, seen + 1)
    ELSE IF (index + 1) % n = start THEN Got(NotFound, seen + 1)
    ELSE GetScan(t, n, key, (index + 1) % n, start, seen + 1)

\* get(key)
LPGet(t, n, key) == GetScan(t, n, key, Rem(key, n), Rem(key, n), 0).ret

\* The number of slots whose key is not the empty marker 0.
Occupied(t) == Cardinality({i \in 1..Len(t) : t[i].first # 0})
\* The slots holding key.
SlotsOf(t, key) == {i \in 1..Len(t) : t[i].first = key}

\* A call that returned: which one, its key, what it returned (0 for void),
\* and whether it changed hash_groups.
Returned(op, key, ret, grew) ==
    [op |-> op, key |-> key, ret |-> ret, grew |-> grew]

\* What insert(key, value) does to the probing table when it returns.
LPDoInsert(key, value) ==
    LET n1 == LPGroupsAtScan(lp_elements, lp_hash_groups)
        t1 == LPTableAtScan(lp_table, lp_elements, lp_hash_groups)
        index == LPInsertSlot(lp_table, lp_elements, lp_hash_groups, key)
    IN  /\ n1 <= MaxGroups
        /\ index # NoSlot
        /\ lp_hash_groups' = n1
        /\ lp_elements' = IF At(t1, index).first # key
                          THEN lp_elements + 1 ELSE lp_elements
        /\ lp_table' = Put(t1, index, Pair(key, value))
        /\ lp_abs' = [lp_abs EXCEPT ![key] = value]

\* insert(key, value) returns.
LPInsert(key, value) ==
    /\ hung = "none"
    /\ LPDoInsert(key, value)
    /\ last' = Returned("insert", key, 0,
                        LPMustGrow(lp_elements, lp_hash_groups))
    /\ UNCHANGED <<scVars, hung>>

\* insert(key, value) never returns: its scan finds neither key nor 0.
LPInsertHangs(key) ==
    /\ hung = "none"
    /\ LPGroupsAtScan(lp_elements, lp_hash_groups) <= MaxGroups
    /\ LPInsertSlot(lp_table, lp_elements, lp_hash_groups, key) = NoSlot
    /\ hung' = "insert"
    /\ UNCHANGED <<lpVars, scVars, last>>

\* What remove(key) does to the probing table when it returns.
LPDoRemove(key) ==
    LET index == RemoveProbe(lp_table, lp_hash_groups, key,
                             Rem(key, lp_hash_groups), 0)
    IN  /\ index # NoSlot
        /\ lp_elements - 1 >= -MaxDeficit
        /\ lp_table' = Erased(lp_table, index)
        /\ lp_elements' = lp_elements - 1
        /\ lp_abs' = [lp_abs EXCEPT ![key] = NotFound]
        /\ UNCHANGED lp_hash_groups

\* remove(key) returns.
LPRemove(key) ==
    /\ hung = "none"
    /\ LPDoRemove(key)
    /\ last' = Returned("remove", key, 0, FALSE)
    /\ UNCHANGED <<scVars, hung>>

\* remove(key) never returns: no slot holds key.
LPRemoveHangs(key) ==
    /\ hung = "none"
    /\ RemoveProbe(lp_table, lp_hash_groups, key,
                   Rem(key, lp_hash_groups), 0) = NoSlot
    /\ hung' = "remove"
    /\ UNCHANGED <<lpVars, scVars, last>>

\* get(key) returns.
LPGetCall(key) ==
    /\ hung = "none"
    /\ last' = Returned("get", key,
                        LPGet(lp_table, lp_hash_groups, key), FALSE)
    /\ UNCHANGED <<lpVars, scVars, hung>>

(***************************************************************************)
(* The probing table alone; the chained table is constructed and unused.   *)
(***************************************************************************)
SCIdle ==
    /\ sc_hash_groups = DefaultGroups
    /\ sc_elements = 0
    /\ sc_table = [i \in 1..DefaultGroups |-> <<>>]
    /\ sc_queue = [k \in Keys0 |-> <<>>]

\* HashTableLinearProbing(hash_groups), hash_groups in 1..MaxInit
LPConstruct(n) ==
    /\ lp_hash_groups = n
    /\ lp_elements = 0
    /\ lp_table = NewTable(n)
    /\ lp_abs = [k \in Keys0 |-> NotFound]

InitLP ==
    /\ \E n \in 1..MaxInit : LPConstruct(n)
    /\ SCIdle
    /\ last = Returned("none", 0, 0, FALSE)
    /\ hung = "none"

\* Every call with a key >= 1.
NextLP ==
    \/ \E key \in Keys1, value \in Vals : LPInsert(key, value)
    \/ \E key \in Keys1 : LPRemove(key)
    \/ \E key \in Keys1 : LPRemoveHangs(key)
    \/ \E key \in Keys1 : LPGetCall(key)

SpecLP == InitLP /\ [][NextLP]_vars

(***************************************************************************)
(* HashTableSeparateChaining                                               *)
(***************************************************************************)

\* The position in chain of the first pair whose key is key, 0 if none:
\* the loop "for (it = begin(); it != end(); it++) if (it->first == key)".
RECURSIVE FirstMatch(_, _, _)
FirstMatch(chain, key, i) ==
    IF i > Len(chain) THEN 0
    ELSE IF chain[i].first = key THEN i
    ELSE FirstMatch(chain, key, i + 1)

\* list::erase(it)
EraseAt(chain, i) == SubSeq(chain, 1, i - 1) \o SubSeq(chain, i + 1, Len(chain))

\* table[group].push_front(p)
PushFront(t, group, p) == [t EXCEPT ![group + 1] = <<p>> \o @]

\* table[group].push_back(p)
PushBack(t, group, p) == [t EXCEPT ![group + 1] = Append(@, p)]

\* A rehash that takes the key modulo the old hash_groups.
RECURSIVE RehashChainOldGroups(_, _, _, _)
RehashChainOldGroups(chain, new, n2, j) ==
    IF j > Len(chain) THEN new
    ELSE RehashChainOldGroups(
             chain, PushBack(new, Rem(chain[j].first, n2 \div 2), chain[j]),
             n2, j + 1)

\* resize's inner loop "for (auto &pair : group)", from position j on.
RECURSIVE RehashChain(_, _, _, _)
RehashChain(chain, new, n2, j) ==
    IF j > Len(chain) THEN new
    ELSE RehashChain(chain, PushBack(new, Rem(chain[j].first, n2), chain[j]),
                     n2, j + 1)

\* resize's outer loop "for (auto &group : table)", from group i on.
RECURSIVE RehashTable(_, _, _, _)
RehashTable(old, new, n2, i) ==
    IF i = Len(old) THEN new
    ELSE RehashTable(old, RehashChain(At(old, i), new, n2, 1), n2, i + 1)

\* An early return that also keeps a table holding 3 pairs per bucket.
SCKeepsUpToThree(e, n) == (e \div n) <= 3

\* resize's early return "if (elements / hash_groups < 3) return".
SCKeeps(e, n) == (e \div n) < 3

\* A resize that multiplies hash_groups by 4.
SCGroupsAfterFourfold(e, n) == IF SCKeeps(e, n) THEN n ELSE 4 * n

\* resize(): hash_groups and table after it.
SCGroupsAfter(e, n) == IF SCKeeps(e, n) THEN n ELSE 2 * n
SCTableAfter(t, e, n) ==
    IF SCKeeps(e, n) THEN t
    ELSE RehashTable(t, [i \in 1..(2 * n) |-> <<>>], 2 * n, 0)

\* get(key)
SCGet(t, n, key) ==
    LET chain == At(t, Rem(key, n))
        i == FirstMatch(chain, key, 1)
    IN  IF i = 0 THEN NotFound ELSE chain[i].second

\* The table after remove(key), and elements after it.
SCTableRemoved(t, n, key) ==
    LET group == Rem(key, n)
        i == FirstMatch(At(t, group), key, 1)
    IN  IF i = 0 THEN t ELSE [t EXCEPT ![group + 1] = EraseAt(@, i)]
SCElementsAlwaysLess(t, e, n, key) == e - 1
SCElementsRemoved(t, e, n, key) ==
    IF FirstMatch(At(t, Rem(key, n)), key, 1) = 0 THEN e ELSE e - 1

\* insert(key, value): push_back, elements++, resize().
SCPut(key, value) ==
    LET t1 == PushBack(sc_table, Rem(key, sc_hash_groups), Pair(key, value))
        e1 == sc_elements + 1
    IN  /\ sc_elements' = e1
        /\ sc_table' = SCTableAfter(t1, e1, sc_hash_groups)
        /\ sc_hash_groups' = SCGroupsAfter(e1, sc_hash_groups)
        /\ sc_queue' = [sc_queue EXCEPT ![key] = Append(@, value)]

\* What insert(key, value) does to the chained table.
SCDoInsert(key, value) ==
    /\ sc_elements < MaxElements
    /\ SCPut(key, value)

\* insert(key, value)
SCInsert(key, value) ==
    /\ hung = "none"
    /\ SCDoInsert(key, value)
    /\ last' = Returned("insert", key, 0,
                        ~SCKeeps(sc_elements + 1, sc_hash_groups))
    /\ UNCHANGED <<lpVars, hung>>

\* What remove(key) does to the chained table.
SCDoRemove(key) ==
    /\ sc_table' = SCTableRemoved(sc_table, sc_hash_groups, key)
    /\ sc_elements' = SCElementsRemoved(sc_table, sc_elements, sc_hash_groups,
                                        key)
    /\ sc_queue' = [sc_queue EXCEPT ![key] = IF @ = <<>> THEN @ ELSE Tail(@)]
    /\ UNCHANGED sc_hash_groups

\* insert(key, key * 100), the call main makes for every key.
SCInsertHundredfold(key) ==
    /\ hung = "none"
    /\ sc_elements < MaxGrowElements
    /\ SCPut(key, key * 100)
    /\ last' = Returned("insert", key, 0,
                        ~SCKeeps(sc_elements + 1, sc_hash_groups))
    /\ UNCHANGED <<lpVars, hung>>

\* remove(key)
SCRemove(key) ==
    /\ hung = "none"
    /\ SCDoRemove(key)
    /\ last' = Returned("remove", key, 0, FALSE)
    /\ UNCHANGED <<lpVars, hung>>

\* get(key)
SCGetCall(key) ==
    /\ hung = "none"
    /\ last' = Returned("get", key,
                        SCGet(sc_table, sc_hash_groups, key), FALSE)
    /\ UNCHANGED <<lpVars, scVars, hung>>

(***************************************************************************)
(* The chained table alone; the probing table is constructed and unused.   *)
(***************************************************************************)
LPIdle ==
    /\ lp_hash_groups = DefaultGroups
    /\ lp_elements = 0
    /\ lp_table = NewTable(DefaultGroups)
    /\ lp_abs = [k \in Keys0 |-> NotFound]

\* HashTableSeparateChaining(hash_groups)
SCConstruct(n) ==
    /\ sc_hash_groups = n
    /\ sc_elements = 0
    /\ sc_table = [i \in 1..n |-> <<>>]
    /\ sc_queue = [k \in Keys0 |-> <<>>]

InitSC ==
    /\ \E n \in 1..MaxInit : SCConstruct(n)
    /\ LPIdle
    /\ last = Returned("none", 0, 0, FALSE)
    /\ hung = "none"

NextSC ==
    \/ \E key \in ChainKeys, value \in Vals : SCInsert(key, value)
    \/ \E key \in ChainKeys : SCRemove(key)
    \/ \E key \in ChainKeys : SCGetCall(key)

SpecSC == InitSC /\ [][NextSC]_vars

(***************************************************************************)
(* The chained table filled the way main fills it, value = key * 100, far  *)
(* enough for two resizes of the smallest table.                           *)
(***************************************************************************)
NextSCGrow ==
    \/ \E key \in ChainKeys : SCInsertHundredfold(key)
    \/ \E key \in ChainKeys : SCRemove(key)
    \/ \E key \in ChainKeys : SCGetCall(key)

SpecSCGrow == InitSC /\ [][NextSCGrow]_vars

(***************************************************************************)
(* The statement that opens insert, remove and get in both classes,        *)
(* "int index = key % hash_groups" ("int group = ..." in the chained       *)
(* table), applied to keys of either sign in freshly constructed tables.   *)
(* last.ret holds the index computed.                                      *)
(***************************************************************************)
SignedKeys == (-MaxKey)..MaxKey
Calls == {"insert", "remove", "get"}

InitIndex ==
    /\ \E n \in 1..MaxIndexGroups : LPConstruct(n) /\ SCConstruct(n)
    /\ last = Returned("none", 0, 0, FALSE)
    /\ hung = "none"

LPIndexOf(op, key) ==
    /\ last' = Returned(op, key, Rem(key, lp_hash_groups), FALSE)
    /\ UNCHANGED <<lpVars, scVars, hung>>

SCIndexOf(op, key) ==
    /\ last' = Returned(op, key, Rem(key, sc_hash_groups), FALSE)
    /\ UNCHANGED <<lpVars, scVars, hung>>

NextIndex ==
    \/ \E op \in Calls, key \in SignedKeys : LPIndexOf(op, key)
    \/ \E op \in Calls, key \in SignedKeys : SCIndexOf(op, key)

SpecIndex == InitIndex /\ [][NextIndex]_vars

(***************************************************************************)
(* The probing table, keys >= 1, remove called on stored keys only.        *)
(***************************************************************************)
LPRemoveStored(key) ==
    /\ lp_abs[key] # NotFound
    /\ LPRemove(key)

NextLPStored ==
    \/ \E key \in Keys1, value \in Vals : LPInsert(key, value)
    \/ \E key \in Keys1 : LPRemoveStored(key)
    \/ \E key \in Keys1 : LPGetCall(key)

SpecLPStored == InitLP /\ [][NextLPStored]_vars

(***************************************************************************)
(* The probing table, keys >= 1, insert and get only.                      *)
(***************************************************************************)
NextLPInsert ==
    \/ \E key \in Keys1, value \in Vals : LPInsert(key, value)
    \/ \E key \in Keys1 : LPGetCall(key)

SpecLPInsert == InitLP /\ [][NextLPInsert]_vars

(***************************************************************************)
(* The probing table, keys >= 0: key 0 is the empty marker.                *)
(***************************************************************************)
NextLPZero ==
    \/ \E key \in ZeroKeys, value \in Vals : LPInsert(key, value)
    \/ \E key \in ZeroKeys : LPInsertHangs(key)
    \/ \E key \in ZeroKeys : LPRemove(key)
    \/ \E key \in ZeroKeys : LPRemoveHangs(key)
    \/ \E key \in ZeroKeys : LPGetCall(key)

SpecLPZero == InitLP /\ [][NextLPZero]_vars

(***************************************************************************)
(* Both tables, constructed with the same hash_groups and given the same   *)
(* calls: keys >= 1, insert of a key that is not stored, remove of a key   *)
(* that is.                                                                *)
(***************************************************************************)
InitBoth ==
    /\ \E n \in 1..MaxInit : LPConstruct(n) /\ SCConstruct(n)
    /\ last = Returned("none", 0, 0, FALSE)
    /\ hung = "none"

BothInsert(key, value) ==
    /\ hung = "none"
    /\ lp_abs[key] = NotFound
    /\ LPDoInsert(key, value)
    /\ SCDoInsert(key, value)
    /\ last' = Returned("insert", key, 0,
                        \/ LPMustGrow(lp_elements, lp_hash_groups)
                        \/ ~SCKeeps(sc_elements + 1, sc_hash_groups))
    /\ UNCHANGED hung

BothRemove(key) ==
    /\ hung = "none"
    /\ lp_abs[key] # NotFound
    /\ LPDoRemove(key)
    /\ SCDoRemove(key)
    /\ last' = Returned("remove", key, 0, FALSE)
    /\ UNCHANGED hung

BothGet(key) ==
    /\ hung = "none"
    /\ last' = Returned("get", key,
                        LPGet(lp_table, lp_hash_groups, key), FALSE)
    /\ UNCHANGED <<lpVars, scVars, hung>>

NextBoth ==
    \/ \E key \in Keys1, value \in Vals : BothInsert(key, value)
    \/ \E key \in Keys1 : BothRemove(key)
    \/ \E key \in Keys1 : BothGet(key)

SpecBoth == InitBoth /\ [][NextBoth]_vars

(***************************************************************************)
(* Claims                                                                  *)
(***************************************************************************)

\* C1 (SpecLPStored): once remove(k) has returned, get(k) returns -1.
C1_GetAfterRemove ==
    last.op = "remove"
        => LPGet(lp_table, lp_hash_groups, last.key) = NotFound

\* remove(k) has returned and another slot still holds k.
C1_Witness ==
    /\ last.op = "remove"
    /\ SlotsOf(lp_table, last.key) # {}

\* C2 (SpecLPStored): get(k) returns the stored value of every key that was
\* inserted and not since removed: the scan from its home index meets it
\* before it meets an empty slot.
C2_StoredKeysReached ==
    \A k \in Keys1 :
        lp_abs[k] # NotFound => LPGet(lp_table, lp_hash_groups, k) = lp_abs[k]

\* C3 (SpecLPInsert): after inserts only, get(k) returns the value inserted
\* last for every key inserted, and -1 for every key never inserted.
C3_InsertsRoundTrip ==
    \A k \in Keys1 : LPGet(lp_table, lp_hash_groups, k) = lp_abs[k]

\* An insert has resized the table and a stored key lies away from its home
\* index.
C3_Witness ==
    /\ last.op = "insert"
    /\ last.grew
    /\ \E k \in Keys1 :
           /\ lp_abs[k] # NotFound
           /\ SlotsOf(lp_table, k) # {Rem(k, lp_hash_groups) + 1}

RECURSIVE TotalQueued(_)
TotalQueued(k) ==
    IF k < 0 THEN 0 ELSE Len(sc_queue[k]) + TotalQueued(k - 1)

\* C4 (SpecSC): the chained table is a map from key to a FIFO queue of
\* values: get(k) returns the oldest value of k inserted and not removed, -1
\* if there is none, and elements is the total length of the queues.
C4_FifoQueues ==
    /\ \A k \in ChainKeys :
           SCGet(sc_table, sc_hash_groups, k)
               = IF sc_queue[k] = <<>> THEN NotFound ELSE Head(sc_queue[k])
    /\ sc_elements = TotalQueued(MaxChainKey)

\* A key inserted twice with different values and removed since: the value
\* inserted second is what is left.
C4_Witness ==
    /\ last.op = "remove"
    /\ \E k \in ChainKeys :
           /\ Len(sc_queue[k]) >= 2
           /\ sc_queue[k][1] # sc_queue[k][2]
    /\ sc_queue[last.key] # <<>>

\* C5 (SpecLPStored): no two slots hold the same key, elements is the number
\* of distinct stored keys, and after insert(k, v) exactly one slot holds k,
\* with the value v.
C5_OneSlotPerKey ==
    /\ \A k \in Keys1 : Cardinality(SlotsOf(lp_table, k)) <= 1
    /\ lp_elements = Cardinality({k \in Keys1 : lp_abs[k] # NotFound})
    /\ last.op = "insert" =>
           \E i \in 1..Len(lp_table) :
               /\ SlotsOf(lp_table, last.key) = {i}
               /\ lp_table[i].second = lp_abs[last.key]

\* C6 (SpecLP), as claimed: the number of occupied slots is less than
\* hash_groups in every reachable state.
C6_NeverFull == Occupied(lp_table) < lp_hash_groups

\* C6 (SpecLP), amended: the number of occupied slots is less than
\* hash_groups in every reachable state whose hash_groups is at least 4.
C6_NeverFullFromFour ==
    lp_hash_groups >= 4 => Occupied(lp_table) < lp_hash_groups

\* A table of 4 slots as full as insert leaves it.
C6_Witness ==
    /\ last.op = "insert"
    /\ lp_hash_groups = 4
    /\ Occupied(lp_table) = 3

\* C7 (SpecLPZero): after every call that returns, elements is the number of
\* non-empty slots, and it is not negative.
C7_ElementsCountsSlots ==
    hung = "none" =>
        /\ lp_elements = Occupied(lp_table)
        /\ lp_elements >= 0

\* Some pair of the chained table has this key.
KeyInTable(t, key) ==
    \E g \in 1..Len(t) : \E i \in 1..Len(t[g]) : t[g][i].first = key

\* chain without its i-th pair.
Without(chain, i) ==
    [j \in 1..(Len(chain) - 1) |-> IF j < i THEN chain[j] ELSE chain[j + 1]]

\* C8 (SpecSC): remove(k) of a key no pair has changes neither elements nor
\* hash_groups nor any chain; remove(k) of a key some pair has deletes one
\* pair of key k from k's chain, leaves the other chains and hash_groups as
\* they are, and takes one from elements.
C8_RemoveFrame ==
    [][last'.op = "remove" =>
          LET k == last'.key
              g == Rem(k, sc_hash_groups) + 1
          IN  /\ sc_hash_groups' = sc_hash_groups
              /\ IF ~KeyInTable(sc_table, k)
                 THEN /\ sc_table' = sc_table
                      /\ sc_elements' = sc_elements
                 ELSE /\ sc_elements' = sc_elements - 1
                      /\ \A h \in 1..Len(sc_table) :
                             h # g => sc_table'[h] = sc_table[h]
                      /\ \E i \in 1..Len(sc_table[g]) :
                             /\ sc_table[g][i].first = k
                             /\ sc_table'[g] = Without(sc_table[g], i)]_vars

\* remove(k) has returned, and k, inserted more than once, still has a pair.
C8_Witness ==
    /\ last.op = "remove"
    /\ KeyInTable(sc_table, last.key)
    /\ sc_elements >= 2

\* C9 (SpecBoth): get(k) returns the same on the chained table and on the
\* probing table, for every key, after every call.
C9_SameGet ==
    \A k \in Keys1 :
        LPGet(lp_table, lp_hash_groups, k) = SCGet(sc_table, sc_hash_groups, k)

\* C10 (SpecLP): in every reachable state and for every key, insert's scan,
\* run after the load check and the resize it may call, meets an empty slot
\* or the key within hash_groups steps.
C10_InsertScanEnds ==
    \A k \in Keys1 :
        LPInsertSlot(lp_table, lp_elements, lp_hash_groups, k) # NoSlot

\* A full table: the next insert has to resize before it scans.
C10_Witness ==
    /\ last.op = "insert"
    /\ Occupied(lp_table) = lp_hash_groups
    /\ LPMustGrow(lp_elements, lp_hash_groups)

\* C11 (SpecLP): remove(k) returns exactly when some slot holds k, wherever
\* the slot is; a remove(k) that does not return leaves hash_groups,
\* elements and table as they were.
C11_RemoveEndsIffHeld ==
    /\ [](\A k \in Keys1 :
             RemoveProbe(lp_table, lp_hash_groups, k,
                         Rem(k, lp_hash_groups), 0) # NoSlot
                 <=> SlotsOf(lp_table, k) # {})
    /\ [][hung' = "remove" =>
              UNCHANGED <<lp_hash_groups, lp_elements, lp_table>>]_vars

\* A remove that never returns, in a table where a key sits behind an empty
\* slot: get does not find it, remove would.
C11_Witness ==
    /\ hung = "remove"
    /\ \E k \in Keys1 :
           /\ SlotsOf(lp_table, k) # {}
           /\ LPGet(lp_table, lp_hash_groups, k) = NotFound

\* The distances from key's home index at which key is met before any empty
\* slot, going forward and wrapping: at most one.
MetAt(t, n, key) ==
    {d \in 0..(n - 1) :
        /\ At(t, (Rem(key, n) + d) % n).first = key
        /\ \A j \in 0..(d - 1) :
               At(t, (Rem(key, n) + j) % n).first \notin {0, key}}

\* C12 (SpecLP): in every reachable state get(k) looks at no more than
\* hash_groups slots, returns the value of the first slot holding k it meets
\* before an empty slot and -1 if it meets none within one turn, and changes
\* neither hash_groups nor elements nor table.
C12_GetBounded ==
    /\ [](\A k \in Keys0 :
             LET n == lp_hash_groups
                 r == GetScan(lp_table, n, k, Rem(k, n), Rem(k, n), 0)
                 met == MetAt(lp_table, n, k)
             IN  /\ r.seen <= n
                 /\ r.ret = IF k = 0 \/ met = {} THEN NotFound
                            ELSE At(lp_table,
                                    (Rem(k, n) + CHOOSE d \in met : TRUE) % n
                                   ).second)
    /\ [][last'.op = "get" =>
              UNCHANGED <<lp_hash_groups, lp_elements, lp_table>>]_vars

\* get has gone once round a full table of several slots without a match.
C12_Witness ==
    /\ last.op = "get"
    /\ last.ret = NotFound
    /\ Occupied(lp_table) = lp_hash_groups
    /\ lp_hash_groups >= 2

\* C13 (SpecLPStored): in every reachable state in which insert calls
\* resize(), get(k) on the table resize() leaves equals get(k) on the table
\* it found, for every key.
C13_ResizeInvisible ==
    LPMustGrow(lp_elements, lp_hash_groups) =>
        \A k \in Keys1 :
            LPGet(LPResize(lp_table, lp_hash_groups), 2 * lp_hash_groups, k)
                = LPGet(lp_table, lp_hash_groups, k)

RECURSIVE TotalChained(_, _)
TotalChained(t, g) ==
    IF g = 0 THEN 0 ELSE Len(t[g]) + TotalChained(t, g - 1)

\* C14 (SpecSCGrow): every pair (k, v) lies in the chain of bucket
\* k mod hash_groups, for the hash_groups of the state, and elements is the
\* number of pairs in all chains.
C14_PairsInHomeBucket ==
    /\ \A g \in 1..Len(sc_table) :
           \A i \in 1..Len(sc_table[g]) :
               sc_table[g][i].first % sc_hash_groups = g - 1
    /\ Len(sc_table) = sc_hash_groups
    /\ sc_elements = TotalChained(sc_table, Len(sc_table))

\* An insert has just resized the table to 4 buckets and bucket 1 has pairs.
C14_Witness ==
    /\ last.op = "insert"
    /\ last.grew
    /\ sc_hash_groups = 4
    /\ sc_table[2] # <<>>

C16_GroupsOnlyDouble ==
    [][/\ lp_hash_groups' # lp_hash_groups =>
              last'.op = "insert" /\ lp_hash_groups' = 2 * lp_hash_groups
       /\ sc_hash_groups' # sc_hash_groups =>
              last'.op = "insert" /\ sc_hash_groups' = 2 * sc_hash_groups
       /\ last'.op \in {"remove", "get"} =>
              UNCHANGED <<lp_hash_groups, sc_hash_groups>>
       /\ lp_hash_groups' >= lp_hash_groups
       /\ sc_hash_groups' >= sc_hash_groups]_vars

\* One insert has just doubled both tables: the probing one for the second
\* time, the chained one for the first.
C16_Witness ==
    /\ last.op = "insert"
    /\ last.grew
    /\ lp_hash_groups = 4
    /\ sc_hash_groups = 2
    /\ sc_elements = 3

\* C17 (SpecIndex): for every key, negative ones included, the index that
\* insert, remove and get compute from it is one of 0 .. hash_groups - 1, in
\* both tables.
C17_IndexInRange ==
    last.op \in Calls =>
        /\ last.ret \in 0..(lp_hash_groups - 1)
        /\ last.ret \in 0..(sc_hash_groups - 1)

\* The number of slots of t holding the pair (key, value).
Copies(t, key, value) ==
    Cardinality({i \in 1..Len(t) : t[i] = Pair(key, value)})

\* No slot of t from the home index of slot i's key up to slot i is empty.
NoEmptyBefore(t, n, i) ==
    LET home == Rem(At(t, i).first, n)
    IN  \A j \in 0..((i - home) % n) : At(t, (home + j) % n).first # 0

\* C18 (SpecLP): when insert is about to call resize(), the table resize()
\* builds has twice the slots, holds every pair (key, value) as many times
\* as the old table and nothing else, and has no empty slot between the home
\* index of a stored key and the slot that holds it, gaps in the old table
\* or not; an insert that resized changes elements by the change in occupied
\* slots, the resize adding nothing to either.
C18_ResizeKeepsPairs ==
    /\ [](LPMustGrow(lp_elements, lp_hash_groups) =>
            LET n2 == 2 * lp_hash_groups
                t2 == LPResize(lp_table, lp_hash_groups)
            IN  /\ t2 # NoTable
                /\ Len(t2) = n2
                /\ \A key \in Keys1, value \in Vals :
                       Copies(t2, key, value) = Copies(lp_table, key, value)
                /\ Occupied(t2) = Occupied(lp_table)
                /\ \A i \in 0..(n2 - 1) :
                       At(t2, i).first # 0 => NoEmptyBefore(t2, n2, i))
    /\ [][last'.op = "insert" /\ last'.grew =>
             lp_elements' - lp_elements
                 = Occupied(lp_table') - Occupied(lp_table)]_vars

\* A 4-slot table about to be resized in which a stored key lies behind an
\* empty slot left by remove.
C18_Witness ==
    /\ lp_hash_groups = 4
    /\ LPMustGrow(lp_elements, lp_hash_groups)
    /\ \E key \in Keys1 :
           /\ SlotsOf(lp_table, key) # {}
           /\ ~NoEmptyBefore(lp_table, lp_hash_groups,
                             (CHOOSE i \in SlotsOf(lp_table, key) : TRUE) - 1)

=============================================================================
